---- MODULE Spec2Model ----
(***************************************************************************)
(* cookmate rust-api (src/rust-api/src/main.rs): an actix-web service with *)
(* one shared AppState { recipes: Mutex<HashMap<String, Recipe>> } and     *)
(* three handlers, ping, list_recipes and add_recipe.                      *)
(*                                                                         *)
(* Each worker thread runs one handler body at a time (the handler bodies  *)
(* contain no .await; std::sync::Mutex::lock blocks the thread), handlers  *)
(* of different workers interleave statement by statement.                 *)
(***************************************************************************)
EXTENDS Naturals, Sequences, FiniteSets, TLC

\* ------------------------------------------------------------------ bounds
\* Number of worker threads of the HttpServer that run handlers in parallel.
NumWorkers == 2

Workers == 1..NumWorkers

\* Recipe names that requests use.
Names == {"Pancakes", "Toast"}

\* ------------------------------------------------------------- data model
\* Option<String>: None is <<>>, Some(s) is <<s>>.
None == <<>>
Some(s) == <<s>>

\* struct Recipe { name, category, method, difficulty }
Recipe(n, c, m, d) == [name |-> n, category |-> c, method |-> m, difficulty |-> d]

\* JSON values of the members of a request body object.
JAbsent == <<"absent">>
JNull == <<"null">>
JNum == <<"num">>
JStr(s) == <<"str", s>>

\* A request body: wf is whether the bytes are a JSON object at all, the other
\* fields are the JSON values of the four members.
Body(wf, n, c, m, d) == [wf |-> wf, name |-> n, category |-> c, method |-> m, difficulty |-> d]

\* The request bodies the clients send.
GoodBodies ==
    { Body(TRUE, JStr(n), JStr("Breakfast"), JStr("Pan"), JStr("Easy")) : n \in Names }
    \cup { Body(TRUE, JStr("Toast"), JStr("Dinner"), JNull, JAbsent) }

BadBodies ==
    { Body(FALSE, JAbsent, JAbsent, JAbsent, JAbsent),
      Body(TRUE, JAbsent, JStr("Breakfast"), JAbsent, JAbsent),
      Body(TRUE, JNum, JStr("Breakfast"), JAbsent, JAbsent),
      Body(TRUE, JStr("Toast"), JAbsent, JAbsent, JNum) }

Bodies == GoodBodies \cup BadBodies

\* serde's Deserialize for a String member: present and a JSON string.
StringOk(j) == j[1] = "str"

\* serde's Deserialize for an Option<String> member: absent or null is None,
\* a string is Some, anything else is an error.
OptionOk(j) == j[1] \in {"absent", "null", "str"}
OptionOf(j) == IF j[1] = "str" THEN Some(j[2]) ELSE None

\* Decode with #[serde(default)] on name: a missing or ill-typed name becomes "".
DecodeDefaultName(b) ==
    IF b.wf /\ OptionOk(b.category) /\ OptionOk(b.method) /\ OptionOk(b.difficulty)
    THEN << Recipe(IF StringOk(b.name) THEN b.name[2] ELSE "", OptionOf(b.category),
                   OptionOf(b.method), OptionOf(b.difficulty)) >>
    ELSE <<>>

\* web::Json<Recipe>: <<>> when the body does not deserialize, <<recipe>>
\* when it does.
Decode(b) ==
    IF b.wf /\ StringOk(b.name) /\ OptionOk(b.category)
            /\ OptionOk(b.method) /\ OptionOk(b.difficulty)
    THEN << Recipe(b.name[2], OptionOf(b.category), OptionOf(b.method),
                   OptionOf(b.difficulty)) >>
    ELSE <<>>

\* Requests, by route.
Requests ==
    { [kind |-> "ping", body |-> Body(FALSE, JAbsent, JAbsent, JAbsent, JAbsent)],
      [kind |-> "list", body |-> Body(FALSE, JAbsent, JAbsent, JAbsent, JAbsent)] }
    \cup { [kind |-> "post", body |-> b] : b \in Bodies }

\* Responses.
\* ping answering with an empty body.
PongNoBody == [status |-> 200, kind |-> "empty", items |-> <<>>]

Pong == [status |-> 200, kind |-> "text", items |-> <<"pong">>]
OkJson(names) == [status |-> 200, kind |-> "json", items |-> names]
\* add_recipe answering with HttpResponse::Ok().
CreatedAsOk == [status |-> 200, kind |-> "empty", items |-> <<>>]

Created == [status |-> 201, kind |-> "empty", items |-> <<>>]
BadRequest == [status |-> 400, kind |-> "error", items |-> <<>>]

\* ------------------------------------------------------------- HashMap
EmptyMap == [k \in {} |-> Recipe("", None, None, None)]

\* insert that keeps the old value of a field the new record leaves None.
Merged(old, new) ==
    Recipe(new.name,
           IF new.category = None THEN old.category ELSE new.category,
           IF new.method = None THEN old.method ELSE new.method,
           IF new.difficulty = None THEN old.difficulty ELSE new.difficulty)

InsertMerging(m, k, v) ==
    [x \in (DOMAIN m) \cup {k} |->
        IF x # k THEN m[x] ELSE IF k \in DOMAIN m THEN Merged(m[k], v) ELSE v]

\* insert into a fresh map instead of the shared one.
InsertReplacing(m, k, v) == [x \in {k} |-> v]

\* insert under the case-folded name.
FoldCase(k) ==
    CASE k = "Toast" -> "toast" [] k = "Pancakes" -> "pancakes" [] OTHER -> k

InsertFolded(m, k, v) ==
    [x \in (DOMAIN m) \cup {FoldCase(k)} |-> IF x = FoldCase(k) THEN v ELSE m[x]]

\* HashMap::insert(k, v)
Insert(m, k, v) == [x \in (DOMAIN m) \cup {k} |-> IF x = k THEN v ELSE m[x]]

Range(s) == {s[i] : i \in DOMAIN s}

\* keys() that stops one key short of the end.
KeyOrdersShort(m) ==
    {s \in UNION {[1..n -> DOMAIN m] : n \in 0..Cardinality(DOMAIN m)} :
        /\ Cardinality(Range(s)) = Len(s)
        /\ Len(s) >= Cardinality(DOMAIN m) - 1}

\* The orders in which HashMap::keys() may yield the keys of m.
KeyOrders(m) ==
    {s \in [1..Cardinality(DOMAIN m) -> DOMAIN m] : Range(s) = DOMAIN m}

\* The map after keys() was taken by draining it (drain() in place of keys()).
AfterDrain(m) == [k \in {} |-> m[k]]

\* The map after recipes.keys(): keys() borrows the map and leaves it as it is.
AfterKeys(m) == m

\* ------------------------------------------------------------------ state
VARIABLES
    store,      \* the HashMap inside AppState.recipes
    locked,     \* whether the Mutex is held
    pc,         \* each worker's position
    req,        \* each worker's request in progress, <<>> or <<request>>
    item,       \* add_recipe's argument item, <<>> or <<recipe>>
    names,      \* list_recipes' local names
    resp,       \* each worker's response, <<>> or <<response>>
    putStarted, \* history: names of the recipes add_recipe was called with
    putDone,    \* history: names of the recipes whose POST has been answered
    lastEntered,\* history: per name, the recipe of the add_recipe that locked last
    base,       \* history: putDone when the worker's GET /recipes arrived
    seen,       \* history: the key sets of store since the worker's GET arrived
    lastListed  \* history: <<names of the last list>> if no put committed since

vars == <<store, locked, pc, req, item, names, resp,
          putStarted, putDone, lastEntered, base, seen, lastListed>>

hist == <<putStarted, putDone, lastEntered, base, seen, lastListed>>

\* main: the store is created empty, the Mutex unlocked, all workers idle.
Init ==
    /\ store = EmptyMap
    /\ locked = FALSE
    /\ pc = [w \in Workers |-> "idle"]
    /\ req = [w \in Workers |-> <<>>]
    /\ item = [w \in Workers |-> <<>>]
    /\ names = [w \in Workers |-> <<>>]
    /\ resp = [w \in Workers |-> <<>>]
    /\ putStarted = {}
    /\ putDone = {}
    /\ lastEntered = EmptyMap
    /\ base = [w \in Workers |-> {}]
    /\ seen = [w \in Workers |-> {}]
    /\ lastListed = <<>>

\* lock that does not wait.
CanLockAlways(l) == TRUE

\* Mutex::lock returns only when the mutex is free.
CanLock(l) == ~l

\* A guard that is leaked (mem::forget) instead of dropped.
ReleasedNever(l) == l

\* Dropping the MutexGuard frees the mutex.
Released(l) == FALSE

\* The positions at which a worker holds the MutexGuard.
InCS(w) == pc[w] \in {"list_keys", "list_resp", "list_drop",
                      "add_insert", "add_resp", "add_drop"}

\* ---------------------------------------------------------------- actions
\* A request arrives at an idle worker and is routed.
Receive(w, r) ==
    /\ pc[w] = "idle"
    /\ req' = [req EXCEPT ![w] = <<r>>]
    /\ pc' = [pc EXCEPT ![w] = CASE r.kind = "ping" -> "ping"
                                 [] r.kind = "list" -> "list_lock"
                                 [] r.kind = "post" -> "extract"]
    /\ base' = [base EXCEPT ![w] = IF r.kind = "list" THEN putDone ELSE {}]
    /\ seen' = [seen EXCEPT ![w] = IF r.kind = "list" THEN {DOMAIN store} ELSE {}]
    /\ UNCHANGED <<store, locked, item, names, resp, putStarted, putDone, lastEntered,
                   lastListed>>

\* ping
Ping(w) ==
    /\ pc[w] = "ping"
    /\ resp' = [resp EXCEPT ![w] = <<Pong>>]
    /\ pc' = [pc EXCEPT ![w] = "done"]
    /\ UNCHANGED <<store, locked, req, item, names>>
    /\ UNCHANGED hist

\* add_recipe's extractor web::Json<Recipe>: the body deserializes and the
\* handler is called with item.
ExtractOk(w) ==
    /\ pc[w] = "extract"
    /\ Decode(req[w][1].body) # <<>>
    /\ item' = [item EXCEPT ![w] = Decode(req[w][1].body)]
    /\ pc' = [pc EXCEPT ![w] = "add_lock"]
    /\ putStarted' = putStarted \cup {Decode(req[w][1].body)[1].name}
    /\ UNCHANGED <<store, locked, req, names, resp, putDone, lastEntered, base, seen,
                   lastListed>>

\* The body does not deserialize: the extractor answers, add_recipe is not called.
ExtractErr(w) ==
    /\ pc[w] = "extract"
    /\ Decode(req[w][1].body) = <<>>
    /\ resp' = [resp EXCEPT ![w] = <<BadRequest>>]
    /\ pc' = [pc EXCEPT ![w] = "done"]
    /\ UNCHANGED <<store, locked, req, item, names>>
    /\ UNCHANGED hist

\* add_recipe: let mut recipes = data.recipes.lock().unwrap();
AddLock(w) ==
    /\ pc[w] = "add_lock"
    /\ CanLock(locked)
    /\ locked' = TRUE
    /\ pc' = [pc EXCEPT ![w] = "add_insert"]
    /\ lastEntered' = Insert(lastEntered, item[w][1].name, item[w][1])
    /\ UNCHANGED <<store, req, item, names, resp, putStarted, putDone, base, seen,
                   lastListed>>

\* add_recipe: recipes.insert(item.name.clone(), item.into_inner());
AddInsert(w) ==
    /\ pc[w] = "add_insert"
    /\ store' = Insert(store, item[w][1].name, item[w][1])
    /\ pc' = [pc EXCEPT ![w] = "add_resp"]
    /\ seen' = [v \in Workers |->
                  IF seen[v] # {} THEN seen[v] \cup {DOMAIN store'} ELSE seen[v]]
    /\ lastListed' = <<>>
    /\ UNCHANGED <<locked, req, item, names, resp, putStarted, putDone, lastEntered, base>>

\* add_recipe: HttpResponse::Created().finish()
AddRespond(w) ==
    /\ pc[w] = "add_resp"
    /\ resp' = [resp EXCEPT ![w] = <<Created>>]
    /\ pc' = [pc EXCEPT ![w] = "add_drop"]
    /\ UNCHANGED <<store, locked, req, item, names>>
    /\ UNCHANGED hist

\* add_recipe returns: the guard recipes goes out of scope.
AddDrop(w) ==
    /\ pc[w] = "add_drop"
    /\ locked' = Released(locked)
    /\ pc' = [pc EXCEPT ![w] = "done"]
    /\ putDone' = putDone \cup {item[w][1].name}
    /\ UNCHANGED <<store, req, item, names, resp, putStarted, lastEntered, base, seen,
                   lastListed>>

\* list_recipes: let recipes = data.recipes.lock().unwrap();
ListLock(w) ==
    /\ pc[w] = "list_lock"
    /\ CanLock(locked)
    /\ locked' = TRUE
    /\ pc' = [pc EXCEPT ![w] = "list_keys"]
    /\ UNCHANGED <<store, req, item, names, resp>>
    /\ UNCHANGED hist

\* list_recipes: let names: Vec<String> = recipes.keys().cloned().collect();
ListKeys(w) ==
    /\ pc[w] = "list_keys"
    /\ \E s \in KeyOrders(store) : names' = [names EXCEPT ![w] = s]
    /\ store' = AfterKeys(store)
    /\ pc' = [pc EXCEPT ![w] = "list_resp"]
    /\ lastListed' = <<Range(names'[w])>>
    /\ UNCHANGED <<locked, req, item, resp>>
    /\ UNCHANGED <<putStarted, putDone, lastEntered, base, seen>>

\* list_recipes: HttpResponse::Ok().json(names)
ListRespond(w) ==
    /\ pc[w] = "list_resp"
    /\ resp' = [resp EXCEPT ![w] = <<OkJson(names[w])>>]
    /\ names' = [names EXCEPT ![w] = <<>>]
    /\ pc' = [pc EXCEPT ![w] = "list_drop"]
    /\ UNCHANGED <<store, locked, req, item>>
    /\ UNCHANGED hist

\* list_recipes returns: the guard recipes goes out of scope.
ListDrop(w) ==
    /\ pc[w] = "list_drop"
    /\ locked' = Released(locked)
    /\ pc' = [pc EXCEPT ![w] = "done"]
    /\ UNCHANGED <<store, req, item, names, resp>>
    /\ UNCHANGED hist

\* The response is sent and the worker takes the next request.
Return(w) ==
    /\ pc[w] = "done"
    /\ pc' = [pc EXCEPT ![w] = "idle"]
    /\ req' = [req EXCEPT ![w] = <<>>]
    /\ item' = [item EXCEPT ![w] = <<>>]
    /\ resp' = [resp EXCEPT ![w] = <<>>]
    /\ base' = [base EXCEPT ![w] = {}]
    /\ seen' = [seen EXCEPT ![w] = {}]
    /\ UNCHANGED <<store, locked, names, putStarted, putDone, lastEntered, lastListed>>

\* A step of the handler running on worker w.
Handle(w) ==
    \/ Ping(w)
    \/ ExtractOk(w)
    \/ ExtractErr(w)
    \/ AddLock(w)
    \/ AddInsert(w)
    \/ AddRespond(w)
    \/ AddDrop(w)
    \/ ListLock(w)
    \/ ListKeys(w)
    \/ ListRespond(w)
    \/ ListDrop(w)
    \/ Return(w)

Next ==
    \/ \E w \in Workers : \E r \in Requests : Receive(w, r)
    \/ \E w \in Workers : Handle(w)

Spec == Init /\ [][Next]_vars

\* The requests of the progress specification: one of each route and outcome
\* (progress at the mutex does not depend on the payload).
LiveRequests ==
    {r \in Requests :
        r.kind = "post" =>
            r.body \in { Body(TRUE, JStr("Toast"), JStr("Dinner"), JNull, JAbsent),
                         Body(TRUE, JAbsent, JStr("Breakfast"), JAbsent, JAbsent) }}

LiveNext ==
    \/ \E w \in Workers : \E r \in LiveRequests : Receive(w, r)
    \/ \E w \in Workers : Handle(w)

\* Fair scheduling of the worker threads: a worker that can take a step
\* eventually takes one, and a worker blocked in lock() is not passed over
\* for ever when the mutex is free again and again. Requests arrive or not as
\* the clients please.
Fairness ==
    \A w \in Workers :
        /\ WF_vars(Handle(w))
        /\ SF_vars(AddLock(w) \/ ListLock(w))

LiveSpec == Init /\ [][LiveNext]_vars /\ Fairness

\* ================================================================= claims
\* Helpers of the claims.
IsKind(w, k) == req[w] # <<>> /\ req[w][1].kind = k
Answered(w) == pc[w] = "done"
Waiting(w) == pc[w] \in {"list_lock", "add_lock"}
PutInFlight(w) == pc[w] \in {"add_lock", "add_insert", "add_resp", "add_drop"}
NoDup(s) == Cardinality(Range(s)) = Len(s)

\* A body that is not of the Recipe shape: not JSON, name missing or not a
\* string, or an optional member that is neither a string nor null.
NotRecipeShaped(b) ==
    \/ ~b.wf
    \/ b.name \in {JAbsent, JNull, JNum}
    \/ JNum \in {b.category, b.method, b.difficulty}

\* C1: mutual exclusion. At most one handler, on any worker, is inside the
\* critical section of the recipe map, and one is inside only while the
\* mutex is held.
C1_MutualExclusion ==
    /\ Cardinality({w \in Workers : InCS(w)}) <= 1
    /\ (\E w \in Workers : InCS(w)) <=> locked

\* C1 witness: one handler is inside the critical section while a handler of
\* another worker is blocked in lock().
C1_Witness ==
    \E w, v \in Workers : w # v /\ InCS(w) /\ Waiting(v)

\* C2: no lost writes. Every put of a decoded recipe is answered 201; the
\* name of every answered put is a key of the store, whatever the other
\* workers are doing; when no put is in flight the keys are exactly the names
\* of the answered puts; and a list that arrived after a put was answered
\* holds that put's name.
C2_NoLostWrites ==
    /\ \A w \in Workers :
          Answered(w) /\ IsKind(w, "post") /\ item[w] # <<>>
              => resp[w][1].status = 201
    /\ putDone \subseteq DOMAIN store
    /\ (\A w \in Workers : ~PutInFlight(w)) => DOMAIN store = putDone
    /\ \A w \in Workers :
          Answered(w) /\ IsKind(w, "list") => base[w] \subseteq Range(resp[w][1].items)

\* C2 witness: two puts with distinct names, outstanding at the same time on
\* two workers, are both answered 201 and the store holds exactly their names.
C2_Witness ==
    \E w, v \in Workers :
        /\ w # v
        /\ Answered(w) /\ IsKind(w, "post") /\ item[w] # <<>>
        /\ Answered(v) /\ IsKind(v, "post") /\ item[v] # <<>>
        /\ item[w][1].name # item[v][1].name
        /\ resp[w][1].status = 201 /\ resp[v][1].status = 201
        /\ DOMAIN store = {item[w][1].name, item[v][1].name}

\* C3: a list that arrives when every put made so far has been answered, and
\* during which no further put is made, returns exactly the names put: none
\* missing, none extra, none twice.
C3_ListIsNamesPut ==
    \A w \in Workers :
        Answered(w) /\ IsKind(w, "list") /\ putStarted = base[w]
            => /\ Range(resp[w][1].items) = base[w]
               /\ NoDup(resp[w][1].items)

\* C3 witness: such a list returns both names.
C3_Witness ==
    \E w \in Workers :
        /\ Answered(w) /\ IsKind(w, "list") /\ putStarted = base[w]
        /\ base[w] = Names
        /\ Len(resp[w][1].items) = Cardinality(Names)

\* C4: overwrite is total. From its insert until it releases the mutex, the
\* record the store holds under the name of a put is that put's record in
\* every field, also where the put's field is None; the store is keyed by
\* name, so there is one record per name, and no list holds a name twice.
C4_OverwriteTotal ==
    /\ \A w \in Workers :
          pc[w] \in {"add_resp", "add_drop"}
              => /\ item[w][1].name \in DOMAIN store
                 /\ store[item[w][1].name] = item[w][1]
    /\ \A w \in Workers : NoDup(names[w])
    /\ \A w \in Workers :
          Answered(w) /\ IsKind(w, "list") => NoDup(resp[w][1].items)

\* C4 witness: a put r2 has just replaced the record of an answered put r1
\* of the same name, where r1 has a method and a difficulty and r2 has neither.
C4_Witness ==
    \E w, v \in Workers :
        /\ w # v
        /\ Answered(v) /\ IsKind(v, "post") /\ item[v] # <<>>
        /\ pc[w] = "add_resp"
        /\ item[w][1].name = item[v][1].name
        /\ item[v][1].method # None /\ item[v][1].difficulty # None
        /\ item[w][1].method = None /\ item[w][1].difficulty = None
        /\ store[item[w][1].name] = item[w][1]

\* While a POST whose body is not of the Recipe shape is in progress: no item,
\* no lock, and a 4xx answer.
C5_RejectedPostInv ==
    \A w \in Workers :
        IsKind(w, "post") /\ NotRecipeShaped(req[w][1].body)
            => /\ pc[w] \in {"extract", "done"}
               /\ item[w] = <<>>
               /\ ~InCS(w)
               /\ Answered(w) => resp[w][1].status \in 400..499

\* The steps of such a POST leave the store, the mutex and the record of puts
\* as they were.
C5_RejectedPostStep ==
    \A w \in Workers :
        IsKind(w, "post") /\ NotRecipeShaped(req[w][1].body) /\ pc'[w] # pc[w]
            => /\ store' = store
               /\ locked' = locked
               /\ putStarted' = putStarted
               /\ putDone' = putDone

\* C5: a POST whose body is not of the Recipe shape never reaches add_recipe
\* (no item, no lock), is answered 4xx, and its answer leaves the store, the
\* mutex and the record of puts as they were, so that later requests find the
\* state they would have found without it.
C5_RejectedPost == []C5_RejectedPostInv /\ [][C5_RejectedPostStep]_vars

\* C5 witness: a POST without a name is answered 400 against the empty store.
C5_Witness ==
    \E w \in Workers :
        /\ Answered(w) /\ IsKind(w, "post")
        /\ req[w][1].body.wf /\ req[w][1].body.name = JAbsent
        /\ resp[w][1].status = 400
        /\ store = EmptyMap /\ ~locked

C7_LastCommitWins ==
    \A n \in DOMAIN lastEntered :
        (\A w \in Workers : PutInFlight(w) => item[w][1].name # n)
            => n \in DOMAIN store /\ store[n] = lastEntered[n]

\* C7 witness: two puts of one name with different records, outstanding at
\* the same time, are both answered, and the store holds the record of one.
C7_Witness ==
    \E w, v \in Workers :
        /\ w # v
        /\ Answered(w) /\ IsKind(w, "post") /\ item[w] # <<>>
        /\ Answered(v) /\ IsKind(v, "post") /\ item[v] # <<>>
        /\ item[w][1].name = item[v][1].name
        /\ item[w][1] # item[v][1]
        /\ store[item[w][1].name] = item[w][1]

\* C8: a list is a snapshot. The names a list returns are the key set the
\* store had at one instant between the arrival of the request and its
\* answer; they include every name whose put had been answered when the
\* request arrived, and no name that was never put.
C8_ListIsSnapshot ==
    \A w \in Workers :
        Answered(w) /\ IsKind(w, "list")
            => /\ Range(resp[w][1].items) \in seen[w]
               /\ base[w] \subseteq Range(resp[w][1].items)
               /\ Range(resp[w][1].items) \subseteq putStarted

\* C8 witness: a list is answered with the key set of an instant of the call
\* that is neither its first nor its last: the store changed before and after.
C8_Witness ==
    \E w \in Workers :
        /\ Answered(w) /\ IsKind(w, "list")
        /\ Range(resp[w][1].items) # DOMAIN store
        /\ {Range(resp[w][1].items)} # seen[w] \ {DOMAIN store}

\* C9: the store operations are total. A list is answered 200 with the JSON
\* array, a put of a recipe-shaped body is answered 201 with an empty body,
\* no handler's answer is an error, and a handler that holds the mutex can
\* always take its next step.
C9_StoreOpsTotal ==
    \A w \in Workers :
        /\ Answered(w) /\ IsKind(w, "list")
              => resp[w][1].status = 200 /\ resp[w][1].kind = "json"
        /\ Answered(w) /\ IsKind(w, "post") /\ ~NotRecipeShaped(req[w][1].body)
              => resp[w][1] = [status |-> 201, kind |-> "empty", items |-> <<>>]
        /\ InCS(w) => ENABLED Handle(w)
        /\ Waiting(w) /\ ~locked => ENABLED Handle(w)

\* C9 witness: a put is answered 201 next to a list answered 200.
C9_Witness ==
    \E w, v \in Workers :
        /\ Answered(w) /\ IsKind(w, "post") /\ ~NotRecipeShaped(req[w][1].body)
        /\ resp[w][1].status = 201
        /\ Answered(v) /\ IsKind(v, "list") /\ resp[v][1].status = 200
        /\ Len(resp[v][1].items) > 0

\* While a ping is in progress: it is outside the guarded region, can always
\* take its step, and its answer is 200 "pong".
C10_PingInv ==
    \A w \in Workers :
        IsKind(w, "ping")
            => /\ pc[w] \in {"ping", "done"}
               /\ ~InCS(w)
               /\ pc[w] = "ping" => ENABLED Ping(w)
               /\ Answered(w)
                     => resp[w][1] = [status |-> 200, kind |-> "text", items |-> <<"pong">>]

\* The steps of a ping leave the store and the mutex as they were.
C10_PingStep ==
    \A w \in Workers :
        IsKind(w, "ping") /\ pc'[w] # pc[w] => store' = store /\ locked' = locked

\* C10: ping is answered 200 "pong" whatever the store holds and whoever
\* holds the mutex; it never takes the mutex and leaves the store as it was.
C10_Ping == []C10_PingInv /\ [][C10_PingStep]_vars

\* C10 witness: a ping is answered while another worker holds the mutex and
\* the store is not empty.
C10_Witness ==
    \E w, v \in Workers :
        /\ Answered(w) /\ IsKind(w, "ping") /\ resp[w][1].status = 200
        /\ InCS(v) /\ locked
        /\ store # EmptyMap

\* The steps of a GET /recipes leave the map, keys and records, as it was.
C11_ListStep ==
    \A w \in Workers :
        IsKind(w, "list") /\ pc'[w] # pc[w] => store' = store

\* C11: list_names is read-only. No step of a GET /recipes, from its arrival
\* to its answer, changes the key set of the store or any stored record.
C11_ListReadOnly == [][C11_ListStep]_vars

\* C11 witness: a list has been answered with both names and the store still
\* holds both, one of them with an overwritten record.
C11_Witness ==
    \E w \in Workers :
        /\ Answered(w) /\ IsKind(w, "list")
        /\ Range(resp[w][1].items) = Names
        /\ DOMAIN store = Names
        /\ store["Toast"].method = None
        /\ store["Pancakes"].method # None

\* A list that collects its names when no put has committed since the last
\* list collected its own collects the same set of names.
C12_ListStep ==
    \A w \in Workers :
        pc[w] = "list_keys" /\ pc'[w] = "list_resp" /\ lastListed # <<>>
            => Range(names'[w]) = lastListed[1]

\* What a list answers is what it collected.
C12_ListAnswer ==
    \A w \in Workers :
        pc[w] = "list_resp" /\ pc'[w] = "list_drop"
            => resp'[w][1].items = names[w]

\* C12: idempotence of list_names. Two lists, of one caller or of two, between
\* which no put commits return the same set of names.
C12_ListIdempotent == [][C12_ListStep /\ C12_ListAnswer]_vars

\* C12 witness: two lists, one after the other with no put committed between
\* them, have both been answered with the same non-empty set of names.
C12_Witness ==
    \E w, v \in Workers :
        /\ w # v
        /\ Answered(w) /\ IsKind(w, "list")
        /\ Answered(v) /\ IsKind(v, "list")
        /\ lastListed = <<Range(resp[v][1].items)>>
        /\ seen[w] = {DOMAIN store} /\ seen[v] = {DOMAIN store}
        /\ Range(resp[w][1].items) = Range(resp[v][1].items)
        /\ resp[w][1].items # <<>>

\* C13: one shared store, writes visible. Before any put is made the store
\* is the empty one of process start and it only ever holds names that were
\* put; a list that arrives, on any worker, after a POST of a name was
\* answered 201 collects and answers that name.
C13_SharedStoreVisible ==
    /\ putStarted = {} => store = EmptyMap
    /\ DOMAIN store \subseteq putStarted
    /\ \A w \in Workers :
          IsKind(w, "list") /\ pc[w] = "list_resp" => base[w] \subseteq Range(names[w])
    /\ \A w \in Workers :
          IsKind(w, "list") /\ pc[w] \in {"list_drop", "done"}
              => base[w] \subseteq Range(resp[w][1].items)

\* C13 witness: a POST answered 201 on one worker, then a list that arrived
\* on another worker afterwards and is answered with the POST's name.
C13_Witness ==
    \E w, v \in Workers :
        /\ w # v
        /\ Answered(v) /\ IsKind(v, "post") /\ item[v] # <<>>
        /\ resp[v][1].status = 201
        /\ Answered(w) /\ IsKind(w, "list")
        /\ item[v][1].name \in base[w]
        /\ item[v][1].name \in Range(resp[w][1].items)

\* C14: the handler releases the mutex before it builds its response: a
\* handler that is about to build its response, or has built it, does not
\* hold the guard.
C14_ReleaseBeforeResponse ==
    \A w \in Workers :
        (pc[w] \in {"list_resp", "add_resp"} \/ resp[w] # <<>>) => ~InCS(w)

\* C15: lock discipline. A handler that holds the guard can always take its
\* next step (it waits for nothing); the mutex is held only by a handler
\* inside the guarded region, never by one that has returned; and whenever a
\* handler is blocked in lock(), some handler can take a step.
C15_LockDiscipline ==
    /\ \A w \in Workers :
          InCS(w) => ENABLED (\/ AddInsert(w) \/ AddRespond(w) \/ AddDrop(w)
                              \/ ListKeys(w) \/ ListRespond(w) \/ ListDrop(w))
    /\ \A w \in Workers : pc[w] \in {"idle", "done"} => ~InCS(w)
    /\ locked => \E w \in Workers : InCS(w)
    /\ (\E w \in Workers : Waiting(w)) => \E v \in Workers : ENABLED Handle(v)

\* C15 witness: a put has returned its response and released the mutex
\* while a handler of another worker is still blocked in lock().
C15_Witness ==
    \E w, v \in Workers :
        /\ w # v
        /\ Answered(w) /\ IsKind(w, "post") /\ item[w] # <<>>
        /\ ~locked
        /\ Waiting(v)

\* C16: key and record agree. Every record of the store is stored under its
\* own name.
C16_KeyIsName ==
    \A n \in DOMAIN store : store[n].name = n

\* C16 witness: the store holds both names, Toast with an overwritten record.
C16_Witness ==
    /\ DOMAIN store = Names
    /\ store["Toast"].category = Some("Dinner")
    /\ "Toast" \in putDone
    /\ \A w \in Workers : pc[w] = "idle"

\* No step removes a name from the store.
C17_KeysStep == DOMAIN store \subseteq (DOMAIN store)'

\* A list that collects its names after another list was answered collects
\* at least the names of that answer.
C17_ListStep ==
    \A w, v \in Workers :
        /\ Answered(w) /\ IsKind(w, "list")
        /\ pc[v] = "list_keys" /\ pc'[v] = "list_resp"
        => Range(resp[w][1].items) \subseteq Range(names'[v])

\* C17: the key set only grows. No step of ping, list, put or a rejected POST
\* removes a name, and a later list holds every name of an earlier one.
C17_KeysOnlyGrow == [][C17_KeysStep /\ C17_ListStep]_vars

\* C17 witness: after a list was answered with one name, a later list has
\* collected two.
C17_Witness ==
    \E w, v \in Workers :
        /\ Answered(w) /\ IsKind(w, "list")
        /\ Len(resp[w][1].items) = 1
        /\ pc[v] = "list_resp"
        /\ Len(names[v]) = 2
        /\ Range(resp[w][1].items) \subseteq Range(names[v])

====
